---- MODULE Spec2Model ----
(***************************************************************************)
(* Quota accounting and IP throttling of the lippstick try-on service.     *)
(*                                                                         *)
(*   - the Postgres functions of supabase-usage-schema.sql                 *)
(*     (check_and_increment_tryons[_anon], decrement_tryons[_anon]),       *)
(*     one action per SQL statement, so that concurrent calls interleave   *)
(*     between statements as READ COMMITTED allows;                        *)
(*   - the in-memory rate limiter (lib/rateLimit);                         *)
(*   - the generate handler (api/generate with quota enforcement).         *)
(***************************************************************************)
EXTENDS Integers, FiniteSets, Sequences, TLC

\* ------------------------------------------------------------------ bounds
MaxDay == 1          \* UTC days are 0..MaxDay
MaxLimit == 1        \* daily_limit arguments are taken from 0..MaxLimit
MaxInterval == 2     \* RateLimitConfig.interval is 1..MaxInterval ticks
MaxRequests == 2     \* RateLimitConfig.maxRequests is 1..MaxRequests

Procs == {"p1", "p2"}    \* concurrent database sessions / in-flight requests
Days == 0..MaxDay

\* --------------------------------------------------------------- identities
NoUser == "null"                 \* auth.uid() of a session without a valid JWT
Users == {"u1"}                  \* auth.users ids
NullAnon == "null"               \* p_anon_id passed as SQL NULL
\* text values that occur as p_anon_id, with their length(p_anon_id)
AnonLen == [short8 |-> 8, srv32a |-> 32]
AnonTexts == DOMAIN AnonLen
\* a text a client makes up and sends as its __Host-tryon_anon cookie
ForgedLen == [forged16 |-> 16]
ForgedTexts == DOMAIN ForgedLen
\* a cookie text of 8 characters outside the Basic Multilingual Plane, by
\* its number of characters
AstralLen == [astral8 |-> 8]
AstralTexts == DOMAIN AstralLen
\* length(text) of Postgres: characters
TextLen == AstralLen @@ ForgedLen @@ AnonLen
\* String.prototype.length of JavaScript: UTF-16 code units, two for each
\* character outside the Basic Multilingual Plane
Utf16Len == [t \in DOMAIN TextLen |->
                IF t \in AstralTexts THEN 2 * TextLen[t] ELSE TextLen[t]]
NULL == -1                       \* SQL NULL of an integer variable

VARIABLES
    day,                \* (now() at time zone 'utc')::date of the database clock
    tryon_usage,        \* table tryon_usage: <<user_id, day>> -> count
    tryon_anon_usage,   \* table tryon_anon_usage: <<anon_id, day>> -> count
    rpc,                \* per session: the function call in progress
    USER_DAILY_LIMIT,   \* env USER_DAILY_TRYON_LIMIT
    ANON_DAILY_LIMIT,   \* env ANON_DAILY_TRYON_LIMIT
    store,              \* rateLimit store: identifier -> [count, resetTime]
    config,             \* the RateLimitConfig the limiter is exercised with
    lastCall,           \* history: identifier and return value of the last rateLimit call
    win,                \* history: identifier -> calls made in its current window
    recent,             \* history: identifier -> calls answered true, by age in ticks
    req,                \* per handler invocation: position and locals
    probe,              \* history: the <<identity, day>> whose successes are counted
    served,             \* history: HTTP 200 responses whose reservation was made by probe[1] on day probe[2]
    anonPassed,         \* history: client ip -> anonymous-quota requests let through in its current window
    issued              \* history: the ids getOrCreateAnonId has generated and set as cookie

dbvars == <<day, tryon_usage, tryon_anon_usage>>
ratevars == <<store, config, lastCall, win, recent>>
envvars == <<USER_DAILY_LIMIT, ANON_DAILY_LIMIT>>
handlervars == <<req, probe, served, anonPassed, issued>>
vars == <<day, tryon_usage, tryon_anon_usage, rpc, USER_DAILY_LIMIT, ANON_DAILY_LIMIT,
          store, config, lastCall, win, recent, req, probe, served, anonPassed,
          issued>>

Max(a, b) == IF a >= b THEN a ELSE b

EmptyTable == [k \in {} |-> 0]

\* coalesce((select count ... where key), 0)
CountOf(table, key) == IF key \in DOMAIN table THEN table[key] ELSE 0

\* ------------------------------------------------------------ SQL statements

\* the upsert with the limit tested after an unconditional increment
Upsert_IncrementThenTest(table, key, daily_limit) ==
    IF key \notin DOMAIN table
    THEN [tbl |-> (key :> 1) @@ table, new_count |-> 1]
    ELSE [tbl |-> [table EXCEPT ![key] = @ + 1],
          new_count |-> IF table[key] < daily_limit THEN table[key] + 1 ELSE NULL]

\* insert into T (id, day, count) values (id, today, 1)
\* on conflict (id, day) do update set count = T.count + 1
\*   where T.count < daily_limit
\* returning count into new_count
Upsert(table, key, daily_limit) ==
    IF key \notin DOMAIN table
    THEN [tbl |-> (key :> 1) @@ table, new_count |-> 1]
    ELSE IF table[key] < daily_limit
         THEN [tbl |-> [table EXCEPT ![key] = @ + 1], new_count |-> table[key] + 1]
         ELSE [tbl |-> table, new_count |-> NULL]

\* the refund without its identity filter: where day = today
RefundUpdate_AnyIdentity(table, key) ==
    [k \in DOMAIN table |-> IF k[2] = key[2] THEN Max(0, table[k] - 1) ELSE table[k]]

\* the refund without its floor: set count = count - 1
RefundUpdate_NoFloor(table, key) ==
    IF key \in DOMAIN table
    THEN [table EXCEPT ![key] = @ - 1]
    ELSE table

\* update T set count = greatest(0, count - 1) where id = .. and day = today
RefundUpdate(table, key) ==
    IF key \in DOMAIN table
    THEN [table EXCEPT ![key] = Max(0, @ - 1)]
    ELSE table

\* p_anon_id is null or length(p_anon_id) < 16
BadAnonId(p_anon_id) == p_anon_id = NullAnon \/ TextLen[p_anon_id] < 16

\* ------------------------------------------------------- function calls
CheckFns == {"check_and_increment_tryons", "check_and_increment_tryons_anon"}
RefundFns == {"decrement_tryons", "decrement_tryons_anon"}
AnonFns == {"check_and_increment_tryons_anon", "decrement_tryons_anon"}

NoResult == [allowed |-> FALSE, count |-> 0, error |-> "pending"]

IdleRpc == [fn |-> "none", id |-> NoUser, daily_limit |-> 0, today |-> 0,
            st |-> "idle", result |-> NoResult]

\* the call with today taken from a clock that stays at day 0
Begin_ClockStopped(fn, id, daily_limit) ==
    LET bad == IF fn \in AnonFns THEN BadAnonId(id) ELSE id = NoUser
    IN IF bad
       THEN [IdleRpc EXCEPT !.fn = fn, !.id = id, !.st = "done",
                            !.result = [allowed |-> FALSE, count |-> 0,
                                        error |-> IF fn \in AnonFns THEN "bad_anon_id"
                                                  ELSE "not_authenticated"]]
       ELSE [IdleRpc EXCEPT !.fn = fn, !.id = id, !.daily_limit = daily_limit,
                            !.today = 0, !.st = "begun"]

\* A call of fn with auth.uid() (user functions) or p_anon_id (anon functions)
\* bound to id, up to its first statement:
\*   declare today date := (now() at time zone 'utc')::date;
\*   begin if <identity missing> then return ..; end if;
Begin(fn, id, daily_limit) ==
    LET bad == IF fn \in AnonFns THEN BadAnonId(id) ELSE id = NoUser
    IN IF bad
       THEN [IdleRpc EXCEPT !.fn = fn, !.id = id, !.st = "done",
                            !.result = [allowed |-> FALSE, count |-> 0,
                                        error |-> IF fn \in AnonFns THEN "bad_anon_id"
                                                  ELSE "not_authenticated"]]
       ELSE [IdleRpc EXCEPT !.fn = fn, !.id = id, !.daily_limit = daily_limit,
                            !.today = day, !.st = "begun"]

\* the insert .. on conflict statement, then the allowed=true return
DbUpsert(p) ==
    /\ rpc[p].st = "begun"
    /\ rpc[p].fn \in CheckFns
    /\ LET c == rpc[p]
           key == <<c.id, c.today>>
           anon == c.fn \in AnonFns
           r == Upsert(IF anon THEN tryon_anon_usage ELSE tryon_usage, key, c.daily_limit)
       IN /\ tryon_usage' = IF anon THEN tryon_usage ELSE r.tbl
          /\ tryon_anon_usage' = IF anon THEN r.tbl ELSE tryon_anon_usage
          /\ rpc' = [rpc EXCEPT ![p] =
                IF r.new_count = NULL
                THEN [c EXCEPT !.st = "denied"]
                ELSE [IdleRpc EXCEPT !.fn = c.fn, !.id = c.id, !.today = c.today,
                               !.st = "done", !.result = [allowed |-> TRUE, count |-> r.new_count,
                                           error |-> "none"]]]
    /\ UNCHANGED <<day, envvars, ratevars, handlervars>>

\* if new_count is null: select count into new_count ..; return allowed=false
DbSelect(p) ==
    /\ rpc[p].st = "denied"
    /\ LET c == rpc[p]
           key == <<c.id, c.today>>
           table == IF c.fn \in AnonFns THEN tryon_anon_usage ELSE tryon_usage
       IN rpc' = [rpc EXCEPT ![p] =
                [IdleRpc EXCEPT !.fn = c.fn, !.id = c.id, !.st = "done",
                          !.result = [allowed |-> FALSE, count |-> CountOf(table, key),
                                      error |-> "none"]]]
    /\ UNCHANGED <<dbvars, envvars, ratevars, handlervars>>

\* the update statement of decrement_tryons / decrement_tryons_anon
DbRefund(p) ==
    /\ rpc[p].st = "begun"
    /\ rpc[p].fn \in RefundFns
    /\ LET c == rpc[p]
           key == <<c.id, c.today>>
           anon == c.fn \in AnonFns
       IN /\ tryon_usage' = IF anon THEN tryon_usage ELSE RefundUpdate(tryon_usage, key)
          /\ tryon_anon_usage' = IF anon THEN RefundUpdate(tryon_anon_usage, key)
                                 ELSE tryon_anon_usage
          /\ rpc' = [rpc EXCEPT ![p] = [IdleRpc EXCEPT !.fn = c.fn, !.id = c.id, !.st = "done"]]
    /\ UNCHANGED <<day, envvars, ratevars, handlervars>>

\* the database clock passes midnight UTC
NextDay ==
    /\ day < MaxDay
    /\ day' = day + 1
    /\ UNCHANGED <<tryon_usage, tryon_anon_usage, rpc, envvars, ratevars, handlervars>>

\* -------------------------------------------- sessions calling the functions
\* A session calls one of the four functions with the configured limit of
\* its identity class.
RpcCall(p) ==
    /\ rpc[p].st = "idle"
    /\ req[p].pc = "idle"
    /\ \E fn \in CheckFns \cup RefundFns :
         IF fn \in AnonFns
         THEN \E a \in AnonTexts \cup {NullAnon} :
                rpc' = [rpc EXCEPT ![p] = Begin(fn, a, ANON_DAILY_LIMIT)]
         ELSE \E u \in Users \cup {NoUser} :
                rpc' = [rpc EXCEPT ![p] = Begin(fn, u, USER_DAILY_LIMIT)]
    /\ UNCHANGED <<dbvars, envvars, ratevars, handlervars>>

RpcReturn(p) ==
    /\ rpc[p].st = "done"
    /\ req[p].pc = "idle"
    /\ rpc' = [rpc EXCEPT ![p] = IdleRpc]
    /\ UNCHANGED <<dbvars, envvars, ratevars, handlervars>>

InitDb ==
    /\ day = 0
    /\ tryon_usage = EmptyTable
    /\ tryon_anon_usage = EmptyTable
    /\ rpc = [p \in Procs |-> IdleRpc]


\* ------------------------------------------------------------ rate limiter
\* Time is kept relative to the caller's clock: the model's origin is
\* Date.now(), resetTime holds its distance from it, and a Tick moves every
\* entry one unit towards expiry.  Entries more than one unit past expiry
\* are kept at -1: the code only ever tests resetTime < now.
Keys == {"tryon:ip1", "tryon:ip2"}

\* rateLimit with the increment left out
rateLimit_NoIncrement(s, identifier, cfg) ==
    LET now == 0
    IN IF identifier \notin DOMAIN s \/ s[identifier].resetTime < now
       THEN [store |-> (identifier :> [count |-> 1, resetTime |-> now + cfg.interval]) @@ s,
             ok |-> TRUE]
       ELSE IF s[identifier].count >= cfg.maxRequests
            THEN [store |-> s, ok |-> FALSE]
            ELSE [store |-> s, ok |-> TRUE]

\* rateLimit with a new window replacing the whole store
rateLimit_OneEntry(s, identifier, cfg) ==
    LET now == 0
    IN IF identifier \notin DOMAIN s \/ s[identifier].resetTime < now
       THEN [store |-> (identifier :> [count |-> 1, resetTime |-> now + cfg.interval]),
             ok |-> TRUE]
       ELSE IF s[identifier].count >= cfg.maxRequests
            THEN [store |-> s, ok |-> FALSE]
            ELSE [store |-> [s EXCEPT ![identifier].count = @ + 1], ok |-> TRUE]

\* rateLimit with a denied call pushing resetTime forward
rateLimit_DenyExtends(s, identifier, cfg) ==
    LET now == 0
    IN IF identifier \notin DOMAIN s \/ s[identifier].resetTime < now
       THEN [store |-> (identifier :> [count |-> 1, resetTime |-> now + cfg.interval]) @@ s,
             ok |-> TRUE]
       ELSE IF s[identifier].count >= cfg.maxRequests
            THEN [store |-> [s EXCEPT ![identifier].resetTime = now + cfg.interval],
                  ok |-> FALSE]
            ELSE [store |-> [s EXCEPT ![identifier].count = @ + 1], ok |-> TRUE]

\* rateLimit with the limit compared by > instead of >=
rateLimit_OffByOne(s, identifier, cfg) ==
    LET now == 0
    IN IF identifier \notin DOMAIN s \/ s[identifier].resetTime < now
       THEN [store |-> (identifier :> [count |-> 1, resetTime |-> now + cfg.interval]) @@ s,
             ok |-> TRUE]
       ELSE IF s[identifier].count > cfg.maxRequests
            THEN [store |-> s, ok |-> FALSE]
            ELSE [store |-> [s EXCEPT ![identifier].count = @ + 1], ok |-> TRUE]

\* export function rateLimit(identifier, config): boolean
rateLimit(s, identifier, cfg) ==
    LET now == 0
    IN IF identifier \notin DOMAIN s \/ s[identifier].resetTime < now
       THEN [store |-> (identifier :> [count |-> 1, resetTime |-> now + cfg.interval]) @@ s,
             ok |-> TRUE]
       ELSE IF s[identifier].count >= cfg.maxRequests
            THEN [store |-> s, ok |-> FALSE]
            ELSE [store |-> [s EXCEPT ![identifier].count = @ + 1], ok |-> TRUE]

\* the window of identifier is open: it has an entry whose resetTime has not passed
WindowOpen(s, identifier) ==
    identifier \in DOMAIN s /\ ~(s[identifier].resetTime < 0)

Min(a, b) == IF a <= b THEN a ELSE b

\* one call rateLimit(k, cfg), with the history it leaves
CallRateLimit(k, cfg) ==
    LET r == rateLimit(store, k, cfg)
    IN /\ store' = r.store
       /\ lastCall' = [key |-> k, ok |-> r.ok]
       /\ win' = [win EXCEPT ![k] = IF WindowOpen(store, k)
                                    THEN Min(@ + 1, cfg.maxRequests + 1)
                                    ELSE 1]
       /\ recent' = IF r.ok THEN [recent EXCEPT ![k][1] = @ + 1] ELSE recent

RateLimitCall(k) ==
    /\ CallRateLimit(k, config)
    /\ UNCHANGED <<config, dbvars, rpc, envvars, handlervars>>

\* one unit of time passes
Tick ==
    /\ store' = [k \in DOMAIN store |->
                    [store[k] EXCEPT !.resetTime = Max(@ - 1, -1)]]
    /\ recent' = [k \in Keys |->
                    [a \in 1..Len(recent[k]) |-> IF a = 1 THEN 0 ELSE recent[k][a - 1]]]
    /\ UNCHANGED <<config, lastCall, win, dbvars, rpc, envvars, handlervars>>

\* the variant with the cleanup timer: setInterval deletes the entries whose
\* resetTime has passed
Cleanup ==
    /\ store' = [k \in {i \in DOMAIN store : ~(store[i].resetTime < 0)} |-> store[k]]
    /\ UNCHANGED <<config, lastCall, win, recent, dbvars, rpc, envvars, handlervars>>

NoCall == [key |-> "none", ok |-> FALSE]

InitRateWith(cfg) ==
    /\ store = EmptyTable
    /\ config = cfg
    /\ lastCall = NoCall
    /\ win = [k \in Keys |-> 0]
    /\ recent = [k \in Keys |-> [a \in 1..cfg.interval |-> 0]]

\* --------------------------------------------------------- generate handler
\* One tick of the limiter's clock stands for the handler's interval of
\* 60 * 60 * 1000 ms; the per-hour allowances 5 (no token) and 20 (token)
\* are scaled to AnonMaxRequests < AuthMaxRequests.
HourTicks == 1
AnonMaxRequests == 1
AuthMaxRequests == 2

NoToken == "none"                          \* no 'Bearer ' Authorization header
\* bearer tokens and what supabaseUser.auth.getUser() resolves them to
UserOfToken == [bogus |-> NoUser, jwt_u1 |-> "u1"]
Tokens == DOMAIN UserOfToken
NoCookie == "none"                         \* no __Host-tryon_anon cookie
FreshIds == {"srv32a"}                     \* crypto.randomBytes(16).toString('hex')
ClientIps == {"ip1"}
IpKey == [ip1 |-> "tryon:ip1"]             \* `tryon:${clientIp}`
Methods == {"POST", "OPTIONS", "GET"}
Bodies == {"ok", "missing", "too_large"}   \* req.body against the two image checks
\* error.message of a failed generation, by the class the catch block tests
GenErrors == {"E005", "timeout", "API token", "403", "quota", "other", "format"}

IdleReq == [pc |-> "idle", token |-> NoToken, cookie |-> NoCookie,
            setCookie |-> NoCookie, kind |-> "none", id |-> "none", resDay |-> 0,
            status |-> 0, error |-> "none"]

\* const ipRateLimit = token ? {..20} : {..5}
ipRateLimit(token) ==
    IF token # NoToken
    THEN [interval |-> HourTicks, maxRequests |-> AuthMaxRequests]
    ELSE [interval |-> HourTicks, maxRequests |-> AnonMaxRequests]

\* getOrCreateAnonId: the cookie when it has 16 characters or more, else a
\* new id that is also set as cookie
getOrCreateAnonId(cookie, fresh) ==
    IF cookie # NoCookie /\ Utf16Len[cookie] >= 16
    THEN [id |-> cookie, set |-> NoCookie]
    ELSE [id |-> fresh, set |-> fresh]

\* return res.status(status).json({error})
Respond(r, status, error) ==
    [IdleReq EXCEPT !.pc = "responded", !.setCookie = r.setCookie,
                    !.status = status, !.error = error]

\* the handler with getOrCreateAnonId called ahead of the IP rate limit
Receive_CookieBeforeThrottle(p, in) ==
    /\ req[p].pc = "idle"
    /\ rpc[p].st = "idle"
    /\ \E method \in in.methods :
        IF method = "OPTIONS"
        THEN /\ req' = [req EXCEPT ![p] = Respond(IdleReq, 200, "options")]
             /\ UNCHANGED <<store, anonPassed, rpc, issued>>
        ELSE IF method # "POST"
        THEN /\ req' = [req EXCEPT ![p] = Respond(IdleReq, 405, "method_not_allowed")]
             /\ UNCHANGED <<store, anonPassed, rpc, issued>>
        ELSE \E ip \in ClientIps, token \in in.tokens :
          LET r0 == [IdleReq EXCEPT !.token = token]
              rl == rateLimit(store, IpKey[ip], ipRateLimit(token))
              user == IF token = NoToken THEN NoUser ELSE UserOfToken[token]
              opened == ~WindowOpen(store, IpKey[ip])
              base == IF opened THEN 0 ELSE anonPassed[ip]
          IN /\ store' = rl.store
             /\ anonPassed' = [anonPassed EXCEPT ![ip] =
                                 IF rl.ok /\ user = NoUser THEN base + 1 ELSE base]
             /\ IF ~rl.ok
                THEN
                  \E cookie \in in.cookies, fresh \in FreshIds :
                    LET anon == getOrCreateAnonId(cookie, fresh)
                    IN /\ req' = [req EXCEPT ![p] =
                              Respond([r0 EXCEPT !.setCookie = anon.set], 429, "ip_rate_limit")]
                       /\ issued' = IF anon.set = NoCookie THEN issued ELSE issued \cup {anon.set}
                       /\ UNCHANGED rpc
                ELSE \E body \in in.bodies :
                  IF body = "missing"
                  THEN
                    /\ req' = [req EXCEPT ![p] = Respond(r0, 400, "missing_images")]
                    /\ UNCHANGED <<rpc, issued>>
                  ELSE IF body = "too_large"
                  THEN
                    /\ req' = [req EXCEPT ![p] = Respond(r0, 400, "too_large")]
                    /\ UNCHANGED <<rpc, issued>>
                  ELSE \E supabase \in in.supabase :
                    IF ~supabase
                    THEN
                      /\ req' = [req EXCEPT ![p] = Respond(r0, 500, "supabase_env")]
                      /\ UNCHANGED <<rpc, issued>>
                    ELSE IF user # NoUser
                    THEN
                      /\ req' = [req EXCEPT ![p] = [r0 EXCEPT !.pc = "quota"]]
                      /\ rpc' = [rpc EXCEPT ![p] =
                             Begin("check_and_increment_tryons", user, USER_DAILY_LIMIT)]
                      /\ UNCHANGED issued
                    ELSE
                      \E cookie \in in.cookies, fresh \in FreshIds :
                        LET anon == getOrCreateAnonId(cookie, fresh)
                        IN /\ req' = [req EXCEPT ![p] =
                                  [r0 EXCEPT !.pc = "quota", !.cookie = cookie, !.setCookie = anon.set]]
                           /\ rpc' = [rpc EXCEPT ![p] =
                                  Begin("check_and_increment_tryons_anon", anon.id, ANON_DAILY_LIMIT)]
                           /\ issued' = IF anon.set = NoCookie THEN issued ELSE issued \cup {anon.set}
    /\ UNCHANGED <<dbvars, envvars, config, lastCall, win, recent, probe, served>>

\* the handler with the body and configuration checks answered after the
\* quota call has been issued
Receive_ValidateAfterQuota(p, in) ==
    /\ req[p].pc = "idle"
    /\ rpc[p].st = "idle"
    /\ \E method \in in.methods :
        IF method = "OPTIONS"
        THEN /\ req' = [req EXCEPT ![p] = Respond(IdleReq, 200, "options")]
             /\ UNCHANGED <<store, anonPassed, rpc, issued>>
        ELSE IF method # "POST"
        THEN /\ req' = [req EXCEPT ![p] = Respond(IdleReq, 405, "method_not_allowed")]
             /\ UNCHANGED <<store, anonPassed, rpc, issued>>
        ELSE \E ip \in ClientIps, token \in in.tokens :
          LET r0 == [IdleReq EXCEPT !.token = token]
              rl == rateLimit(store, IpKey[ip], ipRateLimit(token))
              user == IF token = NoToken THEN NoUser ELSE UserOfToken[token]
              opened == ~WindowOpen(store, IpKey[ip])
              base == IF opened THEN 0 ELSE anonPassed[ip]
          IN /\ store' = rl.store
             /\ anonPassed' = [anonPassed EXCEPT ![ip] =
                                 IF rl.ok /\ user = NoUser THEN base + 1 ELSE base]
             /\ IF ~rl.ok
                THEN
                  /\ req' = [req EXCEPT ![p] = Respond(r0, 429, "ip_rate_limit")]
                  /\ UNCHANGED <<rpc, issued>>
                ELSE \E body \in in.bodies :
                  IF body = "missing"
                  THEN
                    \E fresh \in FreshIds :
                      /\ req' = [req EXCEPT ![p] = Respond(r0, 400, "missing_images")]
                      /\ rpc' = [rpc EXCEPT ![p] =
                             Begin("check_and_increment_tryons_anon", fresh, ANON_DAILY_LIMIT)]
                      /\ UNCHANGED issued
                  ELSE IF body = "too_large"
                  THEN
                    \E fresh \in FreshIds :
                      /\ req' = [req EXCEPT ![p] = Respond(r0, 400, "too_large")]
                      /\ rpc' = [rpc EXCEPT ![p] =
                             Begin("check_and_increment_tryons_anon", fresh, ANON_DAILY_LIMIT)]
                      /\ UNCHANGED issued
                  ELSE \E supabase \in in.supabase :
                    IF ~supabase
                    THEN
                      \E fresh \in FreshIds :
                        /\ req' = [req EXCEPT ![p] = Respond(r0, 500, "supabase_env")]
                        /\ rpc' = [rpc EXCEPT ![p] =
                               Begin("check_and_increment_tryons_anon", fresh, ANON_DAILY_LIMIT)]
                        /\ UNCHANGED issued
                    ELSE IF user # NoUser
                    THEN
                      /\ req' = [req EXCEPT ![p] = [r0 EXCEPT !.pc = "quota"]]
                      /\ rpc' = [rpc EXCEPT ![p] =
                             Begin("check_and_increment_tryons", user, USER_DAILY_LIMIT)]
                      /\ UNCHANGED issued
                    ELSE
                      \E cookie \in in.cookies, fresh \in FreshIds :
                        LET anon == getOrCreateAnonId(cookie, fresh)
                        IN /\ req' = [req EXCEPT ![p] =
                                  [r0 EXCEPT !.pc = "quota", !.cookie = cookie, !.setCookie = anon.set]]
                           /\ rpc' = [rpc EXCEPT ![p] =
                                  Begin("check_and_increment_tryons_anon", anon.id, ANON_DAILY_LIMIT)]
                           /\ issued' = IF anon.set = NoCookie THEN issued ELSE issued \cup {anon.set}
    /\ UNCHANGED <<dbvars, envvars, config, lastCall, win, recent, probe, served>>

\* the handler with getOrCreateAnonId called for every request, signed in or not
Receive_AnonIdAlways(p, in) ==
    /\ req[p].pc = "idle"
    /\ rpc[p].st = "idle"
    /\ \E method \in in.methods :
        IF method = "OPTIONS"
        THEN /\ req' = [req EXCEPT ![p] = Respond(IdleReq, 200, "options")]
             /\ UNCHANGED <<store, anonPassed, rpc, issued>>
        ELSE IF method # "POST"
        THEN /\ req' = [req EXCEPT ![p] = Respond(IdleReq, 405, "method_not_allowed")]
             /\ UNCHANGED <<store, anonPassed, rpc, issued>>
        ELSE \E ip \in ClientIps, token \in in.tokens :
          LET r0 == [IdleReq EXCEPT !.token = token]
              rl == rateLimit(store, IpKey[ip], ipRateLimit(token))
              user == IF token = NoToken THEN NoUser ELSE UserOfToken[token]
              opened == ~WindowOpen(store, IpKey[ip])
              base == IF opened THEN 0 ELSE anonPassed[ip]
          IN /\ store' = rl.store
             /\ anonPassed' = [anonPassed EXCEPT ![ip] =
                                 IF rl.ok /\ user = NoUser THEN base + 1 ELSE base]
             /\ IF ~rl.ok
                THEN
                  /\ req' = [req EXCEPT ![p] = Respond(r0, 429, "ip_rate_limit")]
                  /\ UNCHANGED <<rpc, issued>>
                ELSE \E body \in in.bodies :
                  IF body = "missing"
                  THEN
                    /\ req' = [req EXCEPT ![p] = Respond(r0, 400, "missing_images")]
                    /\ UNCHANGED <<rpc, issued>>
                  ELSE IF body = "too_large"
                  THEN
                    /\ req' = [req EXCEPT ![p] = Respond(r0, 400, "too_large")]
                    /\ UNCHANGED <<rpc, issued>>
                  ELSE \E supabase \in in.supabase :
                    IF ~supabase
                    THEN
                      /\ req' = [req EXCEPT ![p] = Respond(r0, 500, "supabase_env")]
                      /\ UNCHANGED <<rpc, issued>>
                    ELSE IF user # NoUser
                    THEN
                      \E cookie \in in.cookies, fresh \in FreshIds :
                        LET anon == getOrCreateAnonId(cookie, fresh)
                        IN /\ req' = [req EXCEPT ![p] =
                                  [r0 EXCEPT !.pc = "quota", !.setCookie = anon.set]]
                           /\ rpc' = [rpc EXCEPT ![p] =
                                  Begin("check_and_increment_tryons", user, USER_DAILY_LIMIT)]
                           /\ issued' = IF anon.set = NoCookie THEN issued ELSE issued \cup {anon.set}
                    ELSE
                      \E cookie \in in.cookies, fresh \in FreshIds :
                        LET anon == getOrCreateAnonId(cookie, fresh)
                        IN /\ req' = [req EXCEPT ![p] =
                                  [r0 EXCEPT !.pc = "quota", !.cookie = cookie, !.setCookie = anon.set]]
                           /\ rpc' = [rpc EXCEPT ![p] =
                                  Begin("check_and_increment_tryons_anon", anon.id, ANON_DAILY_LIMIT)]
                           /\ issued' = IF anon.set = NoCookie THEN issued ELSE issued \cup {anon.set}
    /\ UNCHANGED <<dbvars, envvars, config, lastCall, win, recent, probe, served>>

\* The handler from its entry to its first await that reaches the database:
\* method checks, IP rate limit, body validation, Supabase configuration,
\* auth.getUser(), and the check-and-increment call of the chosen quota.
\* Each input is read where the code reads it: a request answered early
\* never looks at the rest.
\* in.supabase is whether SUPABASE_URL, SUPABASE_ANON_KEY and
\* SUPABASE_SERVICE_KEY are all set when the invocation reads process.env.
Receive(p, in) ==
    /\ req[p].pc = "idle"
    /\ rpc[p].st = "idle"
    /\ \E method \in in.methods :
        IF method = "OPTIONS"
        THEN /\ req' = [req EXCEPT ![p] = Respond(IdleReq, 200, "options")]
             /\ UNCHANGED <<store, anonPassed, rpc, issued>>
        ELSE IF method # "POST"
        THEN /\ req' = [req EXCEPT ![p] = Respond(IdleReq, 405, "method_not_allowed")]
             /\ UNCHANGED <<store, anonPassed, rpc, issued>>
        ELSE \E ip \in ClientIps, token \in in.tokens :
          LET r0 == [IdleReq EXCEPT !.token = token]
              rl == rateLimit(store, IpKey[ip], ipRateLimit(token))
              user == IF token = NoToken THEN NoUser ELSE UserOfToken[token]
              opened == ~WindowOpen(store, IpKey[ip])
              base == IF opened THEN 0 ELSE anonPassed[ip]
          IN /\ store' = rl.store
             /\ anonPassed' = [anonPassed EXCEPT ![ip] =
                                 IF rl.ok /\ user = NoUser THEN base + 1 ELSE base]
             /\ IF ~rl.ok
                THEN
                  /\ req' = [req EXCEPT ![p] = Respond(r0, 429, "ip_rate_limit")]
                  /\ UNCHANGED <<rpc, issued>>
                ELSE \E body \in in.bodies :
                  IF body = "missing"
                  THEN
                    /\ req' = [req EXCEPT ![p] = Respond(r0, 400, "missing_images")]
                    /\ UNCHANGED <<rpc, issued>>
                  ELSE IF body = "too_large"
                  THEN
                    /\ req' = [req EXCEPT ![p] = Respond(r0, 400, "too_large")]
                    /\ UNCHANGED <<rpc, issued>>
                  ELSE \E supabase \in in.supabase :
                    IF ~supabase
                    THEN
                      /\ req' = [req EXCEPT ![p] = Respond(r0, 500, "supabase_env")]
                      /\ UNCHANGED <<rpc, issued>>
                    ELSE IF user # NoUser
                    THEN
                      /\ req' = [req EXCEPT ![p] = [r0 EXCEPT !.pc = "quota"]]
                      /\ rpc' = [rpc EXCEPT ![p] =
                             Begin("check_and_increment_tryons", user, USER_DAILY_LIMIT)]
                      /\ UNCHANGED issued
                    ELSE
                      \E cookie \in in.cookies, fresh \in FreshIds :
                        LET anon == getOrCreateAnonId(cookie, fresh)
                        IN /\ req' = [req EXCEPT ![p] =
                                  [r0 EXCEPT !.pc = "quota", !.cookie = cookie, !.setCookie = anon.set]]
                           /\ rpc' = [rpc EXCEPT ![p] =
                                  Begin("check_and_increment_tryons_anon", anon.id, ANON_DAILY_LIMIT)]
                           /\ issued' = IF anon.set = NoCookie THEN issued ELSE issued \cup {anon.set}
    /\ UNCHANGED <<dbvars, envvars, config, lastCall, win, recent, probe, served>>

\* the handler without its test of usageData.allowed
QuotaReturned_AllowedIgnored(p, in) ==
    /\ req[p].pc = "quota"
    /\ rpc[p].st = "done"
    /\ \E rpcError \in in.rpcError, replicate \in in.replicate :
        LET r == req[p]
            c == rpc[p]
            anon == c.fn \in AnonFns
            reserved == [IdleReq EXCEPT !.setCookie = r.setCookie,
                                        !.kind = IF anon THEN "anon" ELSE "user",
                                        !.id = c.id, !.resDay = c.today]
        IN req' = [req EXCEPT ![p] =
            IF rpcError
            THEN Respond(r, 500, IF anon THEN "anon_quota_check_failed" ELSE "quota_check_failed")
            ELSE IF ~replicate
            THEN Respond(reserved, 500, "api_key_not_set")
            ELSE [reserved EXCEPT !.pc = "generating"]]
    /\ rpc' = [rpc EXCEPT ![p] = IdleRpc]
    /\ UNCHANGED <<dbvars, envvars, ratevars, probe, served, anonPassed, issued>>

\* the handler without its test of usageError / anonErr
QuotaReturned_ErrorIgnored(p, in) ==
    /\ req[p].pc = "quota"
    /\ rpc[p].st = "done"
    /\ \E rpcError \in in.rpcError, replicate \in in.replicate :
        LET r == req[p]
            c == rpc[p]
            anon == c.fn \in AnonFns
            reserved == [IdleReq EXCEPT !.setCookie = r.setCookie,
                                        !.kind = IF anon THEN "anon" ELSE "user",
                                        !.id = c.id, !.resDay = c.today]
        IN req' = [req EXCEPT ![p] =
            IF ~c.result.allowed
            THEN Respond(r, 429, IF anon THEN "anon_limit_reached" ELSE "user_limit_reached")
            ELSE IF ~replicate
            THEN Respond(reserved, 500, "api_key_not_set")
            ELSE [reserved EXCEPT !.pc = "generating"]]
    /\ rpc' = [rpc EXCEPT ![p] = IdleRpc]
    /\ UNCHANGED <<dbvars, envvars, ratevars, probe, served, anonPassed, issued>>

\* The check-and-increment call has returned: usageError / !allowed / the
\* reservation, then the REPLICATE_API_TOKEN check and the start of
\* replicate.run.
\* in.rpcError: the rpc came back with error set; in.replicate: whether
\* REPLICATE_API_TOKEN is set.
QuotaReturned(p, in) ==
    /\ req[p].pc = "quota"
    /\ rpc[p].st = "done"
    /\ \E rpcError \in in.rpcError, replicate \in in.replicate :
        LET r == req[p]
            c == rpc[p]
            anon == c.fn \in AnonFns
            reserved == [IdleReq EXCEPT !.setCookie = r.setCookie,
                                        !.kind = IF anon THEN "anon" ELSE "user",
                                        !.id = c.id, !.resDay = c.today]
        IN req' = [req EXCEPT ![p] =
            IF rpcError
            THEN Respond(r, 500, IF anon THEN "anon_quota_check_failed" ELSE "quota_check_failed")
            ELSE IF ~c.result.allowed
            THEN Respond(r, 429, IF anon THEN "anon_limit_reached" ELSE "user_limit_reached")
            ELSE IF ~replicate
            THEN Respond(reserved, 500, "api_key_not_set")
            ELSE [reserved EXCEPT !.pc = "generating"]]
    /\ rpc' = [rpc EXCEPT ![p] = IdleRpc]
    /\ UNCHANGED <<dbvars, envvars, ratevars, probe, served, anonPassed, issued>>

\* Promise.race settles: the result url, or the catch block.  A safety
\* filter error with a reservation starts the refund call; every other
\* error is mapped to its status.
GenerationSettles(p) ==
    /\ req[p].pc = "generating"
    /\ \E outcome \in GenErrors \cup {"ok"} :
        LET r == req[p]
        IN IF outcome = "ok"
           THEN /\ req' = [req EXCEPT ![p] = Respond(r, 200, "none")]
                /\ served' = IF <<r.id, r.resDay>> = probe
                             THEN Min(served + 1, USER_DAILY_LIMIT + 1)
                             ELSE served
                /\ UNCHANGED rpc
           ELSE IF outcome = "E005" /\ r.kind # "none"
           THEN /\ req' = [req EXCEPT ![p] = [r EXCEPT !.pc = "refund"]]
                /\ rpc' = [rpc EXCEPT ![p] =
                        IF r.kind = "anon" THEN Begin("decrement_tryons_anon", r.id, 0)
                        ELSE Begin("decrement_tryons", r.id, 0)]
                /\ UNCHANGED served
           ELSE /\ req' = [req EXCEPT ![p] =
                        IF outcome = "timeout" THEN Respond(r, 408, "timeout")
                        ELSE IF outcome = "API token" THEN Respond(r, 401, "invalid_api_key")
                        ELSE IF outcome = "403" THEN Respond(r, 403, "permission")
                        ELSE IF outcome = "quota" THEN Respond(r, 429, "api_quota")
                        ELSE Respond(r, 500, "generation_failed")]
                /\ UNCHANGED <<rpc, served>>
    /\ UNCHANGED <<dbvars, envvars, ratevars, probe, anonPassed, issued>>

\* the refund call has returned: 400 safety_filter
RefundReturned(p) ==
    /\ req[p].pc = "refund"
    /\ rpc[p].st = "done"
    /\ req' = [req EXCEPT ![p] = Respond(req[p], 400, "safety_filter")]
    /\ rpc' = [rpc EXCEPT ![p] = IdleRpc]
    /\ UNCHANGED <<dbvars, envvars, ratevars, probe, served, anonPassed, issued>>

\* the refund call throws before the database ran it: caught and logged,
\* 400 safety_filter
RefundThrows(p) ==
    /\ req[p].pc = "refund"
    /\ rpc[p].st = "begun"
    /\ req' = [req EXCEPT ![p] = Respond(req[p], 400, "safety_filter")]
    /\ rpc' = [rpc EXCEPT ![p] = IdleRpc]
    /\ UNCHANGED <<dbvars, envvars, ratevars, probe, served, anonPassed, issued>>

\* the response has been sent; the invocation ends
Finish(p) ==
    /\ req[p].pc = "responded"
    /\ req' = [req EXCEPT ![p] = IdleReq]
    /\ UNCHANGED <<dbvars, rpc, envvars, ratevars, probe, served, anonPassed, issued>>

\* ------------------------------------------------- clients of the database
\* A signed-in client calls, with its own JWT, a function granted to the
\* role authenticated, with a daily_limit of its choosing.
ClientRpc(p) ==
    /\ rpc[p].st = "idle"
    /\ req[p].pc = "idle"
    /\ \E fn \in {"check_and_increment_tryons", "decrement_tryons"},
          u \in Users, l \in 0..MaxLimit :
            rpc' = [rpc EXCEPT ![p] = Begin(fn, u, IF fn \in CheckFns THEN l ELSE 0)]
    /\ UNCHANGED <<dbvars, envvars, ratevars, handlervars>>

\* A signed-in client writes its own row of today through the policies
\* "Users can insert own usage" / "Users can update own usage".
ClientWrite ==
    /\ \E u \in Users, v \in 0..MaxLimit :
            tryon_usage' = (<<u, day>> :> v) @@ tryon_usage
    /\ UNCHANGED <<day, tryon_anon_usage, rpc, envvars, ratevars, handlervars>>

\* ------------------------------------------------------------ specifications
\* what the clients send and how the deployment is configured
AllInputs ==
    [methods |-> Methods, tokens |-> Tokens \cup {NoToken},
     cookies |-> AnonTexts \cup {NoCookie}, bodies |-> Bodies,
     supabase |-> BOOLEAN, rpcError |-> BOOLEAN, replicate |-> BOOLEAN]

\* well-formed requests of signed-in users to a fully configured deployment
SignedInInputs ==
    [methods |-> {"POST"}, tokens |-> {"jwt_u1"}, cookies |-> {NoCookie},
     bodies |-> {"ok"}, supabase |-> {TRUE}, rpcError |-> {FALSE},
     replicate |-> {TRUE}]

\* well-formed requests to a fully configured deployment, from a signed-in
\* user and from visitors with no cookie, an issued-looking cookie or a
\* made-up one
IdentityInputs ==
    [methods |-> {"POST"}, tokens |-> {NoToken, "jwt_u1"},
     cookies |-> {NoCookie, "srv32a"} \cup ForgedTexts,
     bodies |-> {"ok"}, supabase |-> {TRUE}, rpcError |-> {FALSE},
     replicate |-> {TRUE}]

NoProbe == <<"none", 0>>

InitHandler ==
    /\ req = [p \in Procs |-> IdleReq]
    /\ served = 0
    /\ anonPassed = [ip \in ClientIps |-> 0]
    /\ issued = {}

\* the four database functions, called with one fixed daily_limit in any
\* order by concurrent sessions
InitRpc ==
    /\ InitDb /\ InitHandler /\ probe = NoProbe
    /\ USER_DAILY_LIMIT \in 0..MaxLimit
    /\ ANON_DAILY_LIMIT = USER_DAILY_LIMIT
    /\ InitRateWith([interval |-> 1, maxRequests |-> 1])

NextRpc ==
    \/ \E p \in Procs : RpcCall(p)
    \/ \E p \in Procs : DbUpsert(p)
    \/ \E p \in Procs : DbSelect(p)
    \/ \E p \in Procs : DbRefund(p)
    \/ \E p \in Procs : RpcReturn(p)
    \/ NextDay

SpecRpc == InitRpc /\ [][NextRpc]_vars

\* rateLimit exercised with one fixed configuration
InitRate ==
    /\ InitDb /\ InitHandler /\ probe = NoProbe
    /\ USER_DAILY_LIMIT = 0 /\ ANON_DAILY_LIMIT = 0
    /\ \E i \in 1..MaxInterval, m \in 1..MaxRequests :
            InitRateWith([interval |-> i, maxRequests |-> m])

NextRate ==
    \/ \E k \in Keys : RateLimitCall(k)
    \/ Tick
    \/ Cleanup

SpecRate == InitRate /\ [][NextRate]_vars

\* The process is restarted: the module is evaluated again and store is the
\* empty object of its declaration.  What the clock has seen (recent) stays;
\* restarts are followed while no key has been granted more than
\* maxRequests calls within one tick.
Restart ==
    /\ \A k \in Keys : \A a \in 1..Len(recent[k]) : recent[k][a] <= config.maxRequests
    /\ store' = EmptyTable
    /\ lastCall' = NoCall
    /\ win' = [k \in Keys |-> 0]
    /\ UNCHANGED <<config, recent, dbvars, rpc, envvars, handlervars>>

\* rateLimit in a process that may be restarted at any time
NextRestart ==
    \/ \E k \in Keys : RateLimitCall(k)
    \/ Tick
    \/ Cleanup
    \/ Restart

SpecRestart == InitRate /\ [][NextRestart]_vars

\* the deployed configuration: USER_DAILY_TRYON_LIMIT above
\* ANON_DAILY_TRYON_LIMIT (4 and 3 by default, scaled to 2 and 1)
UserLimit == 2
AnonLimit == 1

InitLimits ==
    /\ USER_DAILY_LIMIT = UserLimit
    /\ ANON_DAILY_LIMIT = AnonLimit

\* the service during one UTC day: concurrent invocations of the generate
\* handler, any request, any configuration
Init ==
    /\ InitDb /\ InitHandler /\ InitLimits /\ probe = NoProbe
    /\ InitRateWith([interval |-> 1, maxRequests |-> 1])

Next ==
    \/ \E p \in Procs : Receive(p, AllInputs)
    \/ \E p \in Procs : DbUpsert(p)
    \/ \E p \in Procs : DbSelect(p)
    \/ \E p \in Procs : DbRefund(p)
    \/ \E p \in Procs : QuotaReturned(p, AllInputs)
    \/ \E p \in Procs : GenerationSettles(p)
    \/ \E p \in Procs : RefundReturned(p)
    \/ \E p \in Procs : RefundThrows(p)
    \/ \E p \in Procs : Finish(p)
    \/ Tick

Spec == Init /\ [][Next]_vars

\* the service across midnight UTC, serving signed-in users; the successes
\* of one user and day are counted
InitDays ==
    /\ InitDb /\ InitHandler /\ InitLimits /\ probe \in Users \X Days
    /\ InitRateWith([interval |-> 1, maxRequests |-> 1])

NextDays ==
    \/ \E p \in Procs : Receive(p, SignedInInputs)
    \/ \E p \in Procs : DbUpsert(p)
    \/ \E p \in Procs : DbSelect(p)
    \/ \E p \in Procs : DbRefund(p)
    \/ \E p \in Procs : QuotaReturned(p, SignedInInputs)
    \/ \E p \in Procs : GenerationSettles(p)
    \/ \E p \in Procs : RefundReturned(p)
    \/ \E p \in Procs : RefundThrows(p)
    \/ \E p \in Procs : Finish(p)
    \/ NextDay
    \/ Tick

SpecDays == InitDays /\ [][NextDays]_vars

\* the service during one UTC day, with signed-in users who also use the
\* database directly
InitClient ==
    /\ InitDb /\ InitHandler /\ InitLimits /\ probe \in Users \X {0}
    /\ InitRateWith([interval |-> 1, maxRequests |-> 1])

NextClient ==
    \/ \E p \in Procs : Receive(p, SignedInInputs)
    \/ \E p \in Procs : DbUpsert(p)
    \/ \E p \in Procs : DbSelect(p)
    \/ \E p \in Procs : DbRefund(p)
    \/ \E p \in Procs : QuotaReturned(p, SignedInInputs)
    \/ \E p \in Procs : GenerationSettles(p)
    \/ \E p \in Procs : RefundReturned(p)
    \/ \E p \in Procs : RefundThrows(p)
    \/ \E p \in Procs : Finish(p)
    \/ \E p \in Procs : ClientRpc(p)
    \/ \E p \in Procs : RpcReturn(p)
    \/ ClientWrite
    \/ Tick

SpecClient == InitClient /\ [][NextClient]_vars

\* the service during one UTC day, serving a signed-in user and anonymous
\* visitors side by side
NextIds ==
    \/ \E p \in Procs : Receive(p, IdentityInputs)
    \/ \E p \in Procs : DbUpsert(p)
    \/ \E p \in Procs : DbSelect(p)
    \/ \E p \in Procs : DbRefund(p)
    \/ \E p \in Procs : QuotaReturned(p, IdentityInputs)
    \/ \E p \in Procs : GenerationSettles(p)
    \/ \E p \in Procs : RefundReturned(p)
    \/ \E p \in Procs : RefundThrows(p)
    \/ \E p \in Procs : Finish(p)
    \/ Tick

SpecIds == Init /\ [][NextIds]_vars

\* well-formed requests of visitors without a token, with every kind of
\* __Host-tryon_anon cookie
AnonInputs ==
    [methods |-> {"POST"}, tokens |-> {NoToken},
     cookies |-> {NoCookie} \cup AnonTexts \cup AstralTexts,
     bodies |-> {"ok"}, supabase |-> {TRUE}, rpcError |-> {FALSE},
     replicate |-> {TRUE}]

\* the service during one UTC day, serving anonymous visitors
NextAnon ==
    \/ \E p \in Procs : Receive(p, AnonInputs)
    \/ \E p \in Procs : DbUpsert(p)
    \/ \E p \in Procs : DbSelect(p)
    \/ \E p \in Procs : DbRefund(p)
    \/ \E p \in Procs : QuotaReturned(p, AnonInputs)
    \/ \E p \in Procs : GenerationSettles(p)
    \/ \E p \in Procs : RefundReturned(p)
    \/ \E p \in Procs : RefundThrows(p)
    \/ \E p \in Procs : Finish(p)
    \/ Tick

SpecAnon == Init /\ [][NextAnon]_vars

\* the awaits of the handler without the 55 second timer of the race:
\* replicate.run alone need not settle
Fairness_NoTimer ==
    \A p \in Procs :
        /\ WF_vars(DbUpsert(p))
        /\ WF_vars(DbSelect(p))
        /\ WF_vars(DbRefund(p))
        /\ WF_vars(QuotaReturned(p, AllInputs))
        /\ WF_vars(RefundReturned(p))
        /\ WF_vars(Finish(p))

\* What the handler's awaits can rely on: a Supabase call that was issued
\* runs and returns, Promise.race settles (replicate.run or, after 55000 ms,
\* the setTimeout rejection), and a computed response is sent.
Fairness ==
    \A p \in Procs :
        /\ WF_vars(DbUpsert(p))
        /\ WF_vars(DbSelect(p))
        /\ WF_vars(DbRefund(p))
        /\ WF_vars(QuotaReturned(p, AllInputs))
        /\ WF_vars(GenerationSettles(p))
        /\ WF_vars(RefundReturned(p))
        /\ WF_vars(Finish(p))

\* the requests of one rate-limit window, every await returning
NextLive ==
    \/ \E p \in Procs : Receive(p, AllInputs)
    \/ \E p \in Procs : DbUpsert(p)
    \/ \E p \in Procs : DbSelect(p)
    \/ \E p \in Procs : DbRefund(p)
    \/ \E p \in Procs : QuotaReturned(p, AllInputs)
    \/ \E p \in Procs : GenerationSettles(p)
    \/ \E p \in Procs : RefundReturned(p)
    \/ \E p \in Procs : RefundThrows(p)
    \/ \E p \in Procs : Finish(p)

SpecLive == Init /\ [][NextLive]_vars /\ Fairness

\* ------------------------------------------------------------------ claims
TableOf(fn) == IF fn \in AnonFns THEN tryon_anon_usage ELSE tryon_usage

\* session p takes a step of its call
Steps(p) == rpc'[p] # rpc[p]

\* C1: for every identity and every UTC day the stored counter never exceeds
\* the configured daily limit of its class.
C1_CountWithinLimit ==
    /\ \A k \in DOMAIN tryon_usage : tryon_usage[k] <= USER_DAILY_LIMIT
    /\ \A k \in DOMAIN tryon_anon_usage : tryon_anon_usage[k] <= ANON_DAILY_LIMIT

\* C2: the upsert of a check-and-increment call reports allowed=true exactly
\* when the identity's counter for today (absent row = 0) was strictly below
\* daily_limit just before, and then the counter is the previous value plus one.
C2_AllowedIffBelowLimit ==
    [][\A p \in Procs :
        (rpc[p].st = "begun" /\ rpc[p].fn \in CheckFns /\ Steps(p)) =>
            LET key == <<rpc[p].id, rpc[p].today>>
                prev == CountOf(TableOf(rpc[p].fn), key)
                allowed == rpc'[p].st = "done" /\ rpc'[p].result.allowed
            IN /\ allowed <=> prev < rpc[p].daily_limit
               /\ allowed => /\ key \in DOMAIN TableOf(rpc[p].fn)'
                             /\ TableOf(rpc[p].fn)'[key] = prev + 1]_vars

\* C3: every step of a check-and-increment call that reports allowed=false
\* (limit reached, no authenticated user, null or short anonymous id) leaves
\* both usage tables as they were: no counter changes and no row appears.
C3_DeniedChangesNothing ==
    [][\A p \in Procs :
        (/\ Steps(p)
         /\ rpc'[p].fn \in CheckFns
         /\ rpc'[p].st \in {"denied", "done"}
         /\ ~rpc'[p].result.allowed)
        => UNCHANGED <<tryon_usage, tryon_anon_usage>>]_vars

\* a call denied because the counter had reached the limit has returned
C3_Witness ==
    \E p \in Procs :
        /\ rpc[p].fn \in CheckFns /\ rpc[p].st = "done"
        /\ ~rpc[p].result.allowed /\ rpc[p].result.error = "none"
        /\ rpc[p].result.count >= 1

\* the effect of the refund statement of session p on table T
RefundEffect(p, T, Tnext) ==
    LET key == <<rpc[p].id, rpc[p].today>>
    IN /\ DOMAIN Tnext = DOMAIN T
       /\ \A k \in DOMAIN T :
            Tnext[k] = IF k # key THEN T[k]
                       ELSE IF T[k] > 0 THEN T[k] - 1 ELSE 0

\* C4: a refund lowers the identity's counter for the current UTC day by
\* exactly one when it is positive and leaves it at zero when it is zero; no
\* counter is ever negative; a refund without a row for the day (or without a
\* valid identity) creates no row and changes nothing.
C4_RefundFlooredAtZero ==
    /\ [](/\ \A k \in DOMAIN tryon_usage : tryon_usage[k] >= 0
          /\ \A k \in DOMAIN tryon_anon_usage : tryon_anon_usage[k] >= 0)
    /\ [][\A p \in Procs :
            (Steps(p) /\ rpc'[p].fn \in RefundFns) =>
                IF rpc[p].st = "begun"
                THEN /\ RefundEffect(p, TableOf(rpc[p].fn), TableOf(rpc[p].fn)')
                     /\ rpc[p].fn \in AnonFns => UNCHANGED tryon_usage
                     /\ rpc[p].fn \notin AnonFns => UNCHANGED tryon_anon_usage
                ELSE UNCHANGED <<tryon_usage, tryon_anon_usage>>]_vars

\* a refund has run for an identity whose row for the day exists and is zero
C4_Witness ==
    \E p \in Procs :
        /\ rpc[p].fn \in RefundFns /\ rpc[p].st = "done"
        /\ \E d \in Days : /\ <<rpc[p].id, d>> \in DOMAIN TableOf(rpc[p].fn)
                           /\ TableOf(rpc[p].fn)[<<rpc[p].id, d>>] = 0

RECURSIVE SumSeq(_)
SumSeq(q) == IF q = <<>> THEN 0 ELSE Head(q) + SumSeq(Tail(q))

\* calls for identifier k answered true during the last config.interval ticks
\* (the span [now - interval + 1, now])
GrantedInSpan(k) == SumSeq(recent[k])

\* C8 (as claimed): sliding window - in every time span of length interval,
\* wherever it starts, at most maxRequests calls to rateLimit return true.
C8_SlidingWindow ==
    \A k \in Keys : GrantedInSpan(k) <= config.maxRequests

\* C8 (amended): the throttle is a fixed window opened by the first call, so
\* a span of length interval can straddle the end of one window and the
\* start of the next: in every time span of length interval at most
\* 2 * maxRequests - 1 calls return true.
C8_FixedWindowSpan ==
    \A k \in Keys : GrantedInSpan(k) <= 2 * config.maxRequests - 1

\* a span of length interval holds more than maxRequests admitted calls
C8_Witness ==
    \E k \in Keys : /\ GrantedInSpan(k) > config.maxRequests
                    /\ GrantedInSpan(k) = 2 * config.maxRequests - 1

\* C9: counting from the call that opens a window, a call made before the
\* window's resetTime has passed returns true exactly when it is among the
\* first maxRequests calls of that window.
C9_FirstMAllowed ==
    lastCall.key \in Keys =>
        (lastCall.ok <=> win[lastCall.key] <= config.maxRequests)

\* the call after the first maxRequests calls of a window was answered false
C9_Witness ==
    /\ lastCall.key \in Keys
    /\ ~lastCall.ok
    /\ win[lastCall.key] = config.maxRequests + 1
    /\ WindowOpen(store, lastCall.key)
    /\ store[lastCall.key].count = config.maxRequests

\* C5: whenever a request holds a reservation and its generation fails
\* (safety filter, timeout, provider error, unexpected output format), the
\* refund call for the reserving identity is issued before the error
\* response: the only ways out of the generation are the 200 response and
\* the refund.
C5_FailureRefunds ==
    [][\A p \in Procs :
        (req[p].pc = "generating" /\ req'[p] # req[p]) =>
            \/ req'[p].pc = "responded" /\ req'[p].status = 200
            \/ /\ req'[p].pc = "refund"
               /\ rpc'[p].fn \in RefundFns
               /\ rpc'[p].id = req[p].id]_vars

\* C6: for every identity and UTC day, the requests that reserved quota on
\* that day and ended in HTTP 200 never outnumber the identity's daily limit.
C6_SuccessesWithinLimit ==
    served <= (IF probe[1] \in Users THEN USER_DAILY_LIMIT ELSE ANON_DAILY_LIMIT)

\* C7: whatever a signed-in client does with the functions granted to it and
\* with its own rows, no more than USER_DAILY_LIMIT of its generate requests
\* are let through to a result in one UTC day.
C7_NoClientBypass ==
    \A u \in Users : probe = <<u, day>> => served <= USER_DAILY_LIMIT

\* C10: for one client ip, at most the anonymous allowance of requests that
\* are not backed by a valid user gets past the IP check within one
\* rate-limit window.
C10_AnonThrottledAtAnonLimit ==
    \A ip \in ClientIps : anonPassed[ip] <= AnonMaxRequests

\* C11: the p_anon_id of every check_and_increment_tryons_anon call made by
\* the handler is an id the server generated: in this request (it is the
\* cookie being set) or earlier (it was issued as a cookie before).
C11_AnonIdServerIssued ==
    [][\A p \in Procs :
        (/\ req[p].pc = "idle"
         /\ rpc'[p].fn = "check_and_increment_tryons_anon"
         /\ rpc[p].fn = "none")
        => \/ rpc'[p].id = req'[p].setCookie
           \/ rpc'[p].id \in issued]_vars

\* some usage counter changes or some row appears in this step
TablesChange == <<tryon_usage, tryon_anon_usage>>' # <<tryon_usage, tryon_anon_usage>>

\* C12: a step that changes a usage table is a statement of one request's
\* rpc and changes only rows of that rpc's identity, in the table of its
\* class; the refund of a request goes to the class and identity of its
\* reservation, so one request never touches both tables.
C12_IdentitiesIndependent ==
    [][TablesChange =>
        /\ \E p \in Procs : Steps(p)
        /\ \A p \in Procs : Steps(p) =>
            LET T == TableOf(rpc[p].fn)
                Tn == TableOf(rpc[p].fn)'
            IN /\ rpc[p].fn \in AnonFns => UNCHANGED tryon_usage
               /\ rpc[p].fn \notin AnonFns => UNCHANGED tryon_anon_usage
               /\ DOMAIN T \subseteq DOMAIN Tn
               /\ \A k \in DOMAIN Tn :
                    k[1] # rpc[p].id => k \in DOMAIN T /\ Tn[k] = T[k]
               /\ req[p].pc = "refund" =>
                    /\ rpc[p].id = req[p].id
                    /\ (rpc[p].fn \in AnonFns) <=> (req[p].kind = "anon")]_vars

\* a refund has run while the user and two anonymous identities hold rows
C12_Witness ==
    /\ \E p \in Procs : req[p].pc = "refund" /\ rpc[p].st = "done"
    /\ DOMAIN tryon_usage # {}
    /\ \E a, b \in DOMAIN tryon_anon_usage : a[1] # b[1] /\ tryon_anon_usage[a] = 1

\* the rows of table T whose day is not d are the same in Tn
OtherDaysSame(T, Tn, d) ==
    \A k \in DOMAIN T \cup DOMAIN Tn :
        k[2] # d => k \in DOMAIN T /\ k \in DOMAIN Tn /\ Tn[k] = T[k]

\* C13: a call reads the UTC day of the database clock when it begins, and
\* its statement changes no row of another day; the first check-and-increment
\* of an identity on day D+1 whose counter of day D equals the limit is
\* allowed and sets the counter of day D+1 to 1.
C13_PerUtcDay ==
    [][\A p \in Procs : Steps(p) =>
        /\ (rpc[p].st = "idle" /\ rpc'[p].st = "begun") => rpc'[p].today = day
        /\ rpc[p].st = "begun" =>
            LET c == rpc[p]
                T == TableOf(c.fn)
                key == <<c.id, c.today>>
            IN /\ OtherDaysSame(tryon_usage, tryon_usage', c.today)
               /\ OtherDaysSame(tryon_anon_usage, tryon_anon_usage', c.today)
               /\ (/\ c.fn \in CheckFns
                   /\ c.today >= 1
                   /\ key \notin DOMAIN T
                   /\ CountOf(T, <<c.id, c.today - 1>>) = c.daily_limit)
                  => /\ rpc'[p].st = "done" /\ rpc'[p].result.allowed
                     /\ TableOf(c.fn)'[key] = 1]_vars

\* an identity at its limit on day 0 has been allowed on day 1 with count 1
C13_Witness ==
    \E p \in Procs :
        /\ rpc[p].fn \in CheckFns /\ rpc[p].st = "done" /\ rpc[p].result.allowed
        /\ rpc[p].today = 1 /\ day = 1
        /\ CountOf(TableOf(rpc[p].fn), <<rpc[p].id, 1>>) = 1
        /\ USER_DAILY_LIMIT >= 1
        /\ CountOf(TableOf(rpc[p].fn), <<rpc[p].id, 0>>) = USER_DAILY_LIMIT

\* C14: a safety-filter rejection of a request that holds a reservation
\* starts one refund call for the reserved identity and class; the refund's
\* statement lowers by one the counter the reservation raised (the row of
\* the reserved identity and of the day of the reservation); the request then
\* ends with 400 safety_filter, whether the refund ran or threw.
C14_SafetyRefund ==
    [][\A p \in Procs :
        /\ (req[p].pc = "generating" /\ req'[p].pc = "refund") =>
                /\ rpc'[p].fn \in RefundFns
                /\ rpc'[p].id = req[p].id
                /\ (rpc'[p].fn \in AnonFns) <=> (req[p].kind = "anon")
        /\ (req[p].pc = "refund" /\ rpc[p].st = "begun" /\ rpc'[p].st = "done") =>
                LET key == <<req[p].id, req[p].resDay>>
                    T == TableOf(rpc[p].fn)
                IN /\ key \in DOMAIN T
                   /\ T[key] >= 1
                   /\ TableOf(rpc[p].fn)'[key] = T[key] - 1
        /\ (req[p].pc = "refund" /\ req'[p].pc # "refund") =>
                /\ req'[p].pc = "responded"
                /\ req'[p].status = 400
                /\ req'[p].error = "safety_filter"]_vars

\* C15: a request answered 429 by the IP rate limit has begun no rpc,
\* changed no usage counter and set no cookie, and like every answered
\* request it only ends; an OPTIONS or non-POST request changes neither the
\* rate-limit store nor a usage counter.
C15_ThrottleBeforeQuota ==
    [][\A p \in Procs :
        /\ (req[p].pc = "idle" /\ req'[p].pc = "responded"
                /\ req'[p].error = "ip_rate_limit") =>
                /\ req'[p].status = 429
                /\ req'[p].setCookie = NoCookie
                /\ req'[p].kind = "none"
                /\ UNCHANGED <<rpc, tryon_usage, tryon_anon_usage, issued>>
        /\ (req[p].pc = "idle" /\ req'[p].pc = "responded"
                /\ req'[p].error \in {"options", "method_not_allowed"}) =>
                UNCHANGED <<store, rpc, tryon_usage, tryon_anon_usage, issued>>
        /\ (req[p].pc = "responded" /\ req'[p] # req[p]) =>
                /\ req'[p].pc = "idle"
                /\ rpc'[p] = rpc[p]
                /\ rpc[p].st = "idle"]_vars

\* a request is answered 429 by the IP rate limit while another one, let
\* through before it, is generating
C15_Witness ==
    \E p, q \in Procs :
        /\ req[p].pc = "responded" /\ req[p].error = "ip_rate_limit"
        /\ req[q].pc = "generating"

\* C16: a request answered for a missing image, an image that is too large
\* (400) or missing Supabase configuration (500) has begun no rpc, holds no
\* reservation and has changed no usage counter.
C16_InvalidInputReservesNothing ==
    [][\A p \in Procs :
        (/\ req[p].pc = "idle" /\ req'[p].pc = "responded"
         /\ req'[p].error \in {"missing_images", "too_large", "supabase_env"}) =>
            /\ req'[p].status = IF req'[p].error = "supabase_env" THEN 500 ELSE 400
            /\ req'[p].kind = "none"
            /\ req'[p].setCookie = NoCookie
            /\ rpc'[p] = IdleRpc
            /\ UNCHANGED <<rpc, tryon_usage, tryon_anon_usage>>]_vars

\* a request with an image that is too large is answered after the IP rate
\* limit counted it, while another request holds a reservation
C16_Witness ==
    \E p, q \in Procs :
        /\ req[p].pc = "responded" /\ req[p].error = "too_large"
        /\ req[p].status = 400
        /\ store[IpKey["ip1"]].count = 2
        /\ req[q].kind = "user" /\ tryon_usage # EmptyTable

\* the rpc came back without error and REPLICATE_API_TOKEN is set
CleanReturn == [rpcError |-> {FALSE}, replicate |-> {TRUE}]

\* C17: a request starts replicate.run only on the return, without error
\* and with allowed=true, of its own check-and-increment call; it makes one
\* such call, begun when the request is received; the statement that made
\* the call allowed raised the counter of the request's identity by one; a
\* success response is only given by a request that was generating.
C17_GenerationNeedsReservation ==
    [][\A p \in Procs :
        /\ (req'[p].pc = "generating" /\ req[p].pc # "generating") =>
                /\ QuotaReturned(p, CleanReturn)
                /\ rpc[p].fn \in CheckFns
                /\ rpc[p].result.allowed
                /\ req'[p].id = rpc[p].id
        /\ (rpc'[p].fn \in CheckFns /\ rpc[p].fn \notin CheckFns) =>
                req[p].pc = "idle" /\ req'[p].pc = "quota"
        /\ (/\ req[p].pc = "quota" /\ Steps(p)
            /\ rpc'[p].st = "done" /\ rpc'[p].result.allowed) =>
                LET key == <<rpc[p].id, rpc[p].today>>
                    T == TableOf(rpc[p].fn)
                IN /\ rpc[p].st = "begun"
                   /\ TableOf(rpc[p].fn)'[key] = CountOf(T, key) + 1
        /\ (/\ req'[p].pc = "responded" /\ req[p].pc # "responded"
            /\ req'[p].status = 200 /\ req'[p].error = "none") =>
                req[p].pc = "generating"]_vars

\* a request has been answered with a result; the only counter raised so
\* far is the one of an anonymous identity, which is 1
C17_Witness ==
    \E p \in Procs :
        /\ req[p].pc = "responded" /\ req[p].status = 200 /\ req[p].error = "none"
        /\ tryon_usage = EmptyTable
        /\ \E k \in DOMAIN tryon_anon_usage : tryon_anon_usage[k] = 1

\* the user a request's bearer token resolves to
UserOf(r) == IF r.token = NoToken THEN NoUser ELSE UserOfToken[r.token]

\* C18: a request whose bearer token resolves to a user calls
\* check_and_increment_tryons for that user, sets no cookie and issues no
\* anonymous id; while it holds the user quota none of its steps touches
\* tryon_anon_usage or calls an anonymous function; when its call is denied
\* it is answered 429 user_limit_reached.  Any other request calls
\* check_and_increment_tryons_anon.
C18_ValidTokenUserQuotaOnly ==
    [][\A p \in Procs :
        /\ (req[p].pc = "idle" /\ req'[p].pc = "quota") =>
                IF UserOf(req'[p]) # NoUser
                THEN /\ rpc'[p].fn = "check_and_increment_tryons"
                     /\ rpc'[p].id = UserOf(req'[p])
                     /\ req'[p].setCookie = NoCookie
                     /\ UNCHANGED issued
                ELSE rpc'[p].fn = "check_and_increment_tryons_anon"
        /\ (/\ req[p].pc \in {"quota", "generating", "refund"}
            /\ UserOf(req[p]) # NoUser \/ req[p].kind = "user"
            /\ Steps(p) \/ req'[p] # req[p]) =>
                /\ rpc'[p].fn \notin AnonFns
                /\ req'[p].setCookie = NoCookie
                /\ UNCHANGED <<tryon_anon_usage, issued>>
        /\ (/\ req[p].pc = "quota" /\ UserOf(req[p]) # NoUser
            /\ ~rpc[p].result.allowed
            /\ QuotaReturned(p, [rpcError |-> {FALSE}, replicate |-> BOOLEAN])) =>
                /\ req'[p].pc = "responded"
                /\ req'[p].status = 429
                /\ req'[p].error = "user_limit_reached"]_vars

\* a signed-in user at the limit has been answered 429 user_limit_reached;
\* no anonymous row exists and no anonymous id has been issued
C18_Witness ==
    \E p \in Procs :
        /\ req[p].pc = "responded" /\ req[p].status = 429
        /\ req[p].error = "user_limit_reached"
        /\ \E k \in DOMAIN tryon_usage : tryon_usage[k] = USER_DAILY_LIMIT
        /\ tryon_anon_usage = EmptyTable /\ issued = {}

\* the rpc came back with error set
FailedReturn == [rpcError |-> {TRUE}, replicate |-> BOOLEAN]

\* C19: when the check-and-increment call of a request comes back with an
\* error, the request is answered 500 (quota_check_failed for the user
\* class, anon_quota_check_failed for the anonymous class) whatever the
\* call's data says; it holds no reservation, calls no function again and
\* the step changes no counter.
C19_FailClosed ==
    [][\A p \in Procs :
        QuotaReturned(p, FailedReturn) =>
            /\ req'[p].pc = "responded"
            /\ req'[p].status = 500
            /\ req'[p].error = IF rpc[p].fn \in AnonFns THEN "anon_quota_check_failed"
                               ELSE "quota_check_failed"
            /\ req'[p].kind = "none"
            /\ rpc'[p] = IdleRpc
            /\ UNCHANGED <<tryon_usage, tryon_anon_usage>>]_vars

\* a request whose call came back with an error although the database had
\* allowed it has been answered 500
C19_Witness ==
    \E p \in Procs :
        /\ req[p].pc = "responded" /\ req[p].status = 500
        /\ req[p].error \in {"quota_check_failed", "anon_quota_check_failed"}
        /\ \A q \in Procs : req[q].pc \in {"idle", "responded"} /\ req[q].status # 200
        /\ tryon_usage # EmptyTable \/ tryon_anon_usage # EmptyTable

\* C20: a request whose check-and-increment call came back allowed and
\* without error goes on to the generation (or to a refund): it is not
\* answered with its reservation left in place.
C20_ReservedMeansAttempted ==
    [][\A p \in Procs :
        (/\ req[p].pc = "quota" /\ req'[p].pc # "quota"
         /\ rpc[p].st = "done" /\ rpc[p].result.allowed
         /\ req'[p].error \notin {"quota_check_failed", "anon_quota_check_failed"}) =>
            req'[p].pc \in {"generating", "refund"}]_vars

\* C21: every request the handler has taken up is eventually answered,
\* given that the Supabase calls return; an answered request only ends (one
\* response per request); a generation cut off by the 55 second timer is
\* answered 408.
C21_EveryRequestAnswered ==
    /\ \A p \in Procs :
            (req[p].pc \in {"quota", "generating", "refund"}) ~> (req[p].pc = "responded")
    /\ [][\A p \in Procs :
            /\ (req[p].pc = "responded" /\ req'[p] # req[p]) => req'[p].pc = "idle"
            /\ (req[p].pc = "generating" /\ req'[p].error = "timeout") =>
                    req'[p].pc = "responded" /\ req'[p].status = 408]_vars

\* a generation that ran into the timer has been answered 408
C21_Witness ==
    \E p \in Procs :
        req[p].pc = "responded" /\ req[p].status = 408 /\ req[p].error = "timeout"

\* C22: an anonymous request whose cookie has length 16 or more uses it as
\* id and sets no cookie, any other one gets a fresh 32 character id and
\* sets it as cookie; the id of every anonymous call the handler makes
\* passes the SQL validity check, so no such call returns bad_anon_id.
C22_AnonIdAlwaysValid ==
    [][\A p \in Procs :
        /\ (req[p].pc = "idle" /\ req'[p].pc = "quota"
                /\ rpc'[p].fn = "check_and_increment_tryons_anon") =>
                LET r == req'[p]
                IN IF r.cookie # NoCookie /\ Utf16Len[r.cookie] >= 16
                   THEN rpc'[p].id = r.cookie /\ r.setCookie = NoCookie
                   ELSE /\ rpc'[p].id \in FreshIds
                        /\ TextLen[rpc'[p].id] = 32
                        /\ r.setCookie = rpc'[p].id
        /\ (req'[p].pc \in {"quota", "refund"} /\ rpc'[p].fn \in AnonFns) =>
                /\ ~BadAnonId(rpc'[p].id)
                /\ rpc'[p].result.error # "bad_anon_id"]_vars

\* C23: a rateLimit call answered false leaves the store as it was; a call
\* for a key whose count has reached maxRequests and whose resetTime has
\* passed is answered true and opens a new window with count 1.
C23_DeniedCallChangesNothing ==
    [][\A k \in Keys : RateLimitCall(k) =>
        /\ ~lastCall'.ok => UNCHANGED store
        /\ (/\ k \in DOMAIN store
            /\ store[k].count >= config.maxRequests
            /\ store[k].resetTime < 0) =>
                /\ lastCall'.ok
                /\ store'[k] = [count |-> 1, resetTime |-> config.interval]]_vars

\* the last call for a key was denied, its entry still holds exactly
\* maxRequests, and its resetTime has now passed
C23_Witness ==
    /\ lastCall.key \in Keys /\ ~lastCall.ok
    /\ lastCall.key \in DOMAIN store
    /\ store[lastCall.key].count = config.maxRequests
    /\ store[lastCall.key].resetTime < 0

\* C24: a restart leaves the store empty; a call for a key that has no entry
\* (as every key after a restart) is answered true and opens its window
\* with count 1; a call for one key leaves the entry of every other key as
\* it was, present or absent.
C24_PerKeyNonDurable ==
    [][/\ Restart => store' = EmptyTable
       /\ \A k \in Keys : RateLimitCall(k) =>
            /\ k \notin DOMAIN store =>
                    /\ lastCall'.ok
                    /\ store'[k] = [count |-> 1, resetTime |-> config.interval]
            /\ \A j \in Keys \ {k} :
                    /\ j \in DOMAIN store' <=> j \in DOMAIN store
                    /\ j \in DOMAIN store => store'[j] = store[j]]_vars

\* after a restart a key is admitted although it was already granted
\* maxRequests calls within the last interval, and the other key's entry
\* stands at its limit
C24_Witness ==
    \E k, j \in Keys :
        /\ k # j
        /\ lastCall = [key |-> k, ok |-> TRUE]
        /\ k \in DOMAIN store /\ store[k].count = 1
        /\ SumSeq(recent[k]) > config.maxRequests
        /\ recent[k][1] > config.maxRequests
        /\ j \in DOMAIN store /\ store[j].count = config.maxRequests

====
